---- MODULE Spec2Model ----
(***************************************************************************)
(* Model of src/EnumInternal.h: the run-time part of the enum class        *)
(* generator.  A family is the pair of static arrays _names / _values      *)
(* generated by _ENUM_ARRAYS; the lazily built table _processedNames is    *)
(* the only mutable shared state.  Strings are sequences of one-character  *)
(* strings, so that trimming and comparisons are computed, not assumed.    *)
(***************************************************************************)
EXTENDS Integers, Sequences, FiniteSets, TLC

(***************************************************************************)
(* Bounds of the model.                                                    *)
(***************************************************************************)
\* Longest generated family (the documented example families are added).
MaxDecls == 3
\* Explicit initialisers of generated families are drawn from 1..MaxValue.
MaxValue == 2
\* Number of threads of the concurrent specification.
NumThreads == 2
\* Most ++ a caller applies to one iterator it took from begin().
MaxAdvance == 6

(***************************************************************************)
(* Characters and C strings.                                               *)
(***************************************************************************)
UpperChars == <<"A", "B", "C", "D", "E", "F", "I", "M", "N", "X">>
LowerChars == <<"a", "b", "c", "d", "e", "f", "i", "m", "n", "x">>

\* tolower(3), as used by strcasecmp.
tolower(c) ==
    IF \E k \in 1..Len(UpperChars) : UpperChars[k] = c
    THEN LowerChars[CHOOSE k \in 1..Len(UpperChars) : UpperChars[k] = c]
    ELSE c

toupper(c) ==
    IF \E k \in 1..Len(LowerChars) : LowerChars[k] = c
    THEN UpperChars[CHOOSE k \in 1..Len(LowerChars) : LowerChars[k] = c]
    ELSE c

LowerOf(s) == [k \in 1..Len(s) |-> tolower(s[k])]
UpperOf(s) == [k \in 1..Len(s) |-> toupper(s[k])]

\* strcmp(a, b) == 0
strcmp0(a, b) == a = b

\* strcasecmp(a, b) == 0
strcasecmp0(a, b) ==
    /\ Len(a) = Len(b)
    /\ \A k \in 1..Len(a) : tolower(a[k]) = tolower(b[k])

\* _ENUM_NAME_ENDERS, without the implicit terminator.
ENUM_NAME_ENDERS == <<"=", " ", "\t", "\n">>

\* strpbrk(s, _ENUM_NAME_ENDERS): position (1-based) of the first name ender
\* of s, or 0 for a null result.
RECURSIVE strpbrk(_, _)
strpbrk(s, k) ==
    IF k > Len(s) THEN 0
    ELSE IF \E e \in 1..Len(ENUM_NAME_ENDERS) : ENUM_NAME_ENDERS[e] = s[k]
         THEN k
         ELSE strpbrk(s, k + 1)

\* A trimming that keeps the name ender it stopped at.
TrimNameWithEnder(raw) ==
    LET nameEnd == strpbrk(raw, 1)
    IN  SubSeq(raw, 1, IF nameEnd = 0 THEN Len(raw) ELSE nameEnd)

\* The body of the trimming loop of _enum::_processNames for one raw name:
\* the first symbolCount characters of the raw name.
TrimName(raw) ==
    LET nameEnd     == strpbrk(raw, 1)
        symbolCount == IF nameEnd = 0 THEN Len(raw) ELSE nameEnd - 1
    IN  SubSeq(raw, 1, symbolCount)

(***************************************************************************)
(* Declarations, as the ENUM macro receives them.                          *)
(***************************************************************************)
DigitChars == <<"0", "1", "2", "3", "4", "5", "6", "7", "8", "9">>

RECURSIVE Digits(_)
Digits(n) ==
    IF n < 10 THEN <<DigitChars[n + 1]>>
    ELSE Digits(n \div 10) \o <<DigitChars[(n % 10) + 1]>>

\* A declaration with an explicit initialiser, and one without.
Explicit(name, sep, v) == [name |-> name, explicit |-> TRUE, sep |-> sep, value |-> v]
Auto(name) == [name |-> name, explicit |-> FALSE, sep |-> <<>>, value |-> 0]

\* _ENUM_STRINGIZE: the whole declaration text.
Stringize(d) == IF d.explicit THEN d.name \o d.sep \o Digits(d.value) ELSE d.name

\* enum _Value { __VA_ARGS__ } and _ENUM_EAT_ASSIGN: the value of each
\* enumerator, an omitted initialiser meaning one more than the previous.
RECURSIVE EnumValue(_, _)
EnumValue(decls, i) ==
    IF decls[i].explicit THEN decls[i].value
    ELSE IF i = 1 THEN 0 ELSE EnumValue(decls, i - 1) + 1

GeneratedNames(decls)  == [i \in 1..Len(decls) |-> Stringize(decls[i])]
GeneratedValues(decls) == [i \in 1..Len(decls) |-> EnumValue(decls, i)]

Tight  == <<"=">>
Spaced == <<" ", "=", " ">>

NamePool == {<<"A">>, <<"a">>, <<"_", "b", "a", "d">>}

\* The declarations of a family written with separator sep.
DeclPool(sep) ==
    {Auto(n) : n \in NamePool}
      \cup {Explicit(n, sep, v) : n \in NamePool, v \in 1..MaxValue}

\* Enumerators of one enum have distinct identifiers.
DistinctNames(decls) ==
    \A i, j \in 1..Len(decls) : decls[i].name = decls[j].name => i = j

GenFamilies ==
    UNION {{f \in [1..n -> DeclPool(sep)] : DistinctNames(f)} :
             n \in 1..MaxDecls, sep \in {Tight, Spaced}}

\* The families the documentation uses as examples.
FamilyABC == <<Auto(<<"A">>), Auto(<<"B">>), Auto(<<"C">>)>>
FamilyBad ==
    <<Explicit(<<"A">>, Spaced, 5),
      Explicit(<<"_", "b", "a", "d">>, Tight, 99),
      Explicit(<<"B">>, <<"\t", "=">>, 6)>>
FamilyOverride ==
    <<Explicit(<<"_", "m", "i", "n">>, Spaced, 10),
      Explicit(<<"_", "m", "a", "x">>, Spaced, 20),
      Explicit(<<"A">>, <<"\n", "=", " ">>, 1),
      Explicit(<<"B">>, Tight, 2)>>

ExampleFamilies == {FamilyABC, FamilyBad, FamilyOverride}

\* The forms of one constant definition that _ENUM_NAME_ENDERS documents.
FormFamilies ==
    {<<Explicit(<<"A">>, Spaced, 42)>>, <<Explicit(<<"A">>, Tight, 42)>>, <<Auto(<<"A">>)>>}

Families == GenFamilies \cup ExampleFamilies \cup FormFamilies

(***************************************************************************)
(* State.                                                                  *)
(***************************************************************************)
VARIABLES
    _names,            \* _GeneratedArrays::_names: the stringized declarations
    _values,           \* _GeneratedArrays::_values
    _processedNames,   \* _Internal::_processedNames: nullptr or a table of heap
    heap,              \* the arrays allocated by _enum::_processNames so far
    pc,                \* per thread: where it stands in its current call
    op,                \* per thread: the member function it called last
    arg,               \* per thread: the argument of that call
    result,            \* per thread: what the call returned, threw or yielded
    local,             \* per thread: processedNames, local to _enum::_processNames
    index,             \* per thread: the loop index / iterator::_index
    used,              \* per thread: the name table pointer the call read
    owner,             \* per array of heap: the thread that allocated and wrote it
    seen               \* per thread: the name table entries as the call read them

vars == <<_names, _values, _processedNames, heap, pc, op, arg, result, local,
          index, used, owner, seen>>

nullptr == 0

\* An element of a new[] array that has not been assigned yet.
Unwritten == <<"?">>

_rawSize == Len(_values)

Threads == 1..NumThreads

\* The single caller of the sequential specification.
MainThreads == {t \in Threads : \A u \in Threads : t <= u}

(***************************************************************************)
(* Results of calls: a returned value, or a thrown exception.              *)
(***************************************************************************)
Return(x) == [thrown |-> "", ret |-> <<x>>]
Throw(e)  == [thrown |-> e, ret |-> <<>>]
NoResult  == [thrown |-> "", ret |-> <<>>]

\* The exception types a handler `catch (const std::exception &e)` catches.
CaughtAsStdException == {"std::exception", "std::domain_error"}

(***************************************************************************)
(* _Iterable and its iterator.                                             *)
(***************************************************************************)
\* _Iterable::begin(): the index of the iterator it returns.
begin == 0

\* _Iterable::end().
end == _rawSize

\* An operator++ without the test against _rawSize.
incrementUnchecked(i) == i + 1

\* iterator::operator++.
increment(i) == IF i < _rawSize THEN i + 1 ELSE i

\* iterator::operator*.
deref(arrayPointer, i) == arrayPointer[i + 1]

\* for (e : iterable): what a traversal from begin() to end() yields.
RECURSIVE Traverse(_, _)
Traverse(arrayPointer, i) ==
    IF i = end THEN <<>>
    ELSE <<deref(arrayPointer, i)>> \o Traverse(arrayPointer, increment(i))

\* A size that leaves the last declaration out of the count.
_sizeWithoutLast == _rawSize - 1

\* _Internal::_size.
_size == _rawSize

\* EnumType::size(), which _Iterable::size() forwards to.
EnumType_size == _size

\* _Iterable::size().
Iterable_size == EnumType_size

(***************************************************************************)
(* Range properties, computed when the family is defined.                  *)
(***************************************************************************)
\* _range::_MinMax.
MinMaxPair(bestMin, bestMax) == [min |-> bestMin, max |-> bestMax]

\* _range::_minMax: indices (from 0) of the lowest and the highest value.
RECURSIVE _range_minMax(_, _, _, _, _)
_range_minMax(values, valueCount, i, bestMin, bestMax) ==
    IF i = valueCount THEN MinMaxPair(bestMin, bestMax)
    ELSE IF values[i + 1] > values[bestMax + 1]
         THEN _range_minMax(values, valueCount, i + 1, bestMin, i)
         ELSE _range_minMax(values, valueCount, i + 1,
                            IF values[i + 1] < values[bestMin + 1] THEN i ELSE bestMin,
                            bestMax)

\* _Internal::_minMax, _minIndex and _maxIndex.
_minMax == _range_minMax(_values, _rawSize, 1, 0, 0)
_minIndex == _minMax.min
_maxIndex == _minMax.max

\* The family's minimum and maximum: the values at _minIndex and _maxIndex.
FamilyMin == _values[_minIndex + 1]
FamilyMax == _values[_maxIndex + 1]

(***************************************************************************)
(* The lookups of _Internal, on a built table.                             *)
(***************************************************************************)
RECURSIVE descLoop(_, _, _, _)
descLoop(names, values, value, i) ==
    IF ~(i < Len(values)) THEN Throw("std::domain_error")
    ELSE IF values[i + 1] = value THEN Return(names[i + 1])
    ELSE descLoop(names, values, value, i + 1)

\* A desc that keeps scanning and returns the name of the last match.
descLast(names, values, value) ==
    IF \E i \in 1..Len(values) : values[i] = value
    THEN Return(names[CHOOSE i \in 1..Len(values) :
                        /\ values[i] = value
                        /\ \A j \in (i + 1)..Len(values) : values[j] # value])
    ELSE Throw("std::domain_error")

\* A desc that reports a missing value with the exception type of find.
descThrowsPlain(names, values, value) ==
    LET r == descLoop(names, values, value, 0)
    IN  IF r.thrown = "" THEN r ELSE Throw("std::exception")

desc(names, values, value) == descLoop(names, values, value, 0)

RECURSIVE findLoop(_, _, _, _)
findLoop(names, values, name, i) ==
    IF ~(i < Len(values)) THEN Throw("std::exception")
    ELSE IF strcmp0(names[i + 1], name) THEN Return(values[i + 1])
    ELSE findLoop(names, values, name, i + 1)

\* A find whose scan starts after the first declaration.
findSkipsFirst(names, values, name) == findLoop(names, values, name, 1)

find(names, values, name) == findLoop(names, values, name, 0)

RECURSIVE caseFindLoop(_, _, _, _)
caseFindLoop(names, values, name, i) ==
    IF ~(i < Len(values)) THEN Throw("std::exception")
    ELSE IF strcasecmp0(names[i + 1], name) THEN Return(values[i + 1])
    ELSE caseFindLoop(names, values, name, i + 1)

\* A caseFind that compares with strcmp.
caseFindSensitive(names, values, name) == findLoop(names, values, name, 0)

caseFind(names, values, name) == caseFindLoop(names, values, name, 0)

\* valid(IntegralType).
validIntegral(value) == Return(TRUE)

\* A handler that catches std::domain_error only.
TryCatchDomainError(r) ==
    IF r.thrown = "" THEN Return(TRUE)
    ELSE IF r.thrown = "std::domain_error" THEN Return(FALSE)
    ELSE r

\* try { lookup; return true; } catch (const std::exception &e) { return false; }
TryCatch(r) ==
    IF r.thrown = "" THEN Return(TRUE)
    ELSE IF r.thrown \in CaughtAsStdException THEN Return(FALSE)
    ELSE r

\* valid(const char*).
valid(names, values, name) == TryCatch(find(names, values, name))

caseValid(names, values, name) == TryCatch(caseFind(names, values, name))

(***************************************************************************)
(* The callers' inputs.                                                    *)
(***************************************************************************)
NameOps == {"names", "desc", "find", "caseFind", "valid", "caseValid"}

DeclaredValues == {_values[i] : i \in 1.._rawSize}

\* Values passed to desc and valid: every declared value, its successor, zero.
QueryValues == DeclaredValues \cup {v + 1 : v \in DeclaredValues} \cup {0}

\* Names passed to the lookups: every declared name as written, in lower and
\* in upper case, every raw declaration text, and a name no family declares.
QueryNames ==
    LET declared == {TrimName(_names[i]) : i \in 1.._rawSize}
    IN  declared \cup {LowerOf(n) : n \in declared} \cup {UpperOf(n) : n \in declared}
          \cup {_names[i] : i \in 1.._rawSize} \cup {<<"D">>}

(***************************************************************************)
(* Initial states: a generated family, nothing built, nobody calling.      *)
(***************************************************************************)
InitFamily(decls) ==
    /\ _names = GeneratedNames(decls)
    /\ _values = GeneratedValues(decls)
    /\ _processedNames = nullptr
    /\ heap = <<>>
    /\ pc = [t \in Threads |-> "idle"]
    /\ op = [t \in Threads |-> "none"]
    /\ arg = [t \in Threads |-> <<>>]
    /\ result = [t \in Threads |-> NoResult]
    /\ local = [t \in Threads |-> nullptr]
    /\ index = [t \in Threads |-> 0]
    /\ used = [t \in Threads |-> nullptr]
    /\ owner = <<>>
    /\ seen = [t \in Threads |-> <<>>]

\* static_assert(_rawSize > 0, "no constants defined in enum type")
StaticAssertRawSize(decls) == Len(decls) > 0

\* The families the compiler accepts, the empty declaration list being tried.
Init == \E decls \in Families \cup {<<>>} : StaticAssertRawSize(decls) /\ InitFamily(decls)

(***************************************************************************)
(* Calls.  A call of a name-based member first runs _processNames().       *)
(***************************************************************************)
Enter(t, o, a) ==
    /\ pc[t] = "idle"
    /\ op' = [op EXCEPT ![t] = o]
    /\ arg' = [arg EXCEPT ![t] = a]
    /\ result' = [result EXCEPT ![t] = NoResult]
    /\ pc' = [pc EXCEPT ![t] = IF o \in NameOps THEN "processNames" ELSE "body"]
    /\ local' = [local EXCEPT ![t] = nullptr]
    /\ index' = [index EXCEPT ![t] = 0]
    /\ used' = [used EXCEPT ![t] = nullptr]
    /\ seen' = [seen EXCEPT ![t] = <<>>]
    /\ UNCHANGED <<_names, _values, _processedNames, heap, owner>>

CallValues(t)    == Enter(t, "values", <<>>)
CallNames(t)     == Enter(t, "names", <<>>)
CallDesc(t)      == \E v \in QueryValues : Enter(t, "desc", v)
CallFind(t)      == \E n \in QueryNames : Enter(t, "find", n)
CallCaseFind(t)  == \E n \in QueryNames : Enter(t, "caseFind", n)
CallValidInt(t)  == \E v \in QueryValues : Enter(t, "validIntegral", v)
CallValid(t)     == \E n \in QueryNames : Enter(t, "valid", n)
CallCaseValid(t) == \E n \in QueryNames : Enter(t, "caseValid", n)

\* _Internal::_processNames(): if (_processedNames == nullptr)
ProcessNamesTest(t) ==
    /\ pc[t] = "processNames"
    /\ pc' = [pc EXCEPT ![t] = IF _processedNames = nullptr THEN "allocate" ELSE "body"]
    /\ UNCHANGED <<_names, _values, _processedNames, heap, op, arg, result, local,
                   index, used, owner, seen>>

\* _enum::_processNames: const char **processedNames = new const char*[count];
\* (operator new is taken to succeed: the nullptr tests after it never fire.)
Allocate(t) ==
    /\ pc[t] = "allocate"
    /\ heap' = Append(heap, [i \in 1.._rawSize |-> Unwritten])
    /\ local' = [local EXCEPT ![t] = Len(heap) + 1]
    /\ index' = [index EXCEPT ![t] = 0]
    /\ pc' = [pc EXCEPT ![t] = "trim"]
    /\ owner' = Append(owner, t)
    /\ UNCHANGED <<_names, _values, _processedNames, op, arg, result, used, seen>>

\* _enum::_processNames: one iteration of the trimming loop, or its exit.
Trim(t) ==
    /\ pc[t] = "trim"
    /\ IF index[t] < _rawSize
       THEN /\ heap' = [heap EXCEPT ![local[t]][index[t] + 1] =
                            TrimName(_names[index[t] + 1])]
            /\ index' = [index EXCEPT ![t] = index[t] + 1]
            /\ pc' = pc
       ELSE /\ pc' = [pc EXCEPT ![t] = "publish"]
            /\ UNCHANGED <<heap, index>>
    /\ UNCHANGED <<_names, _values, _processedNames, op, arg, result, local, used,
                   owner, seen>>

\* _Internal::_processNames(): _processedNames = (the returned array);
Publish(t) ==
    /\ pc[t] = "publish"
    /\ _processedNames' = local[t]
    /\ pc' = [pc EXCEPT ![t] = "body"]
    /\ UNCHANGED <<_names, _values, heap, op, arg, result, local, index, used,
                   owner, seen>>

\* What the member function called by t computes, on the table it reads.
Compute(o, a, names) ==
    CASE o = "desc"          -> desc(names, _values, a)
      [] o = "find"          -> find(names, _values, a)
      [] o = "caseFind"      -> caseFind(names, _values, a)
      [] o = "valid"         -> valid(names, _values, a)
      [] o = "caseValid"     -> caseValid(names, _values, a)
      [] o = "validIntegral" -> validIntegral(a)

\* What a read of the entries of array p by thread t can give.  The thread
\* that wrote them reads what it wrote.  Another thread reads them with no
\* synchronisation with the writes (_processedNames is a plain pointer, read
\* and written without a lock): each read gives the entry written or what
\* the element held before.
Views(t, p) ==
    IF owner[p] = t THEN {heap[p]}
    ELSE {v \in [1..Len(heap[p]) -> {heap[p][i] : i \in 1..Len(heap[p])} \cup {Unwritten}] :
             \A i \in 1..Len(heap[p]) : v[i] \in {heap[p][i], Unwritten}}

\* The body of the member function after _processNames().  values() and
\* names() return an iterable, which the caller then traverses from begin().
Body(t) ==
    /\ pc[t] = "body"
    /\ used' = [used EXCEPT ![t] = IF op[t] \in NameOps THEN _processedNames ELSE nullptr]
    /\ \E view \in IF op[t] \in NameOps THEN Views(t, _processedNames) ELSE {<<>>} :
          /\ seen' = [seen EXCEPT ![t] = view]
          /\ IF op[t] \in {"values", "names"}
             THEN /\ index' = [index EXCEPT ![t] = begin]
                  /\ pc' = [pc EXCEPT ![t] = "loop"]
                  /\ UNCHANGED result
             ELSE /\ result' = [result EXCEPT ![t] = Compute(op[t], arg[t], view)]
                  /\ pc' = [pc EXCEPT ![t] = "idle"]
                  /\ UNCHANGED index
    /\ UNCHANGED <<_names, _values, _processedNames, heap, op, arg, local, owner>>

\* The array an iterable of t points to, as t reads it.
ArrayOf(t) == IF op[t] = "names" THEN seen[t] ELSE _values

\* for (e : iterable): it != end() ? (yield *it, ++it) : leave the loop.
Loop(t) ==
    /\ pc[t] = "loop"
    /\ IF index[t] # end
       THEN /\ result' = [result EXCEPT ![t].ret = Append(@, deref(ArrayOf(t), index[t]))]
            /\ index' = [index EXCEPT ![t] = increment(index[t])]
            /\ pc' = pc
       ELSE /\ pc' = [pc EXCEPT ![t] = "idle"]
            /\ UNCHANGED <<result, index>>
    /\ UNCHANGED <<_names, _values, _processedNames, heap, op, arg, local, used,
                   owner, seen>>

\* auto it = values().begin(); the caller then applies ++ to it at will.
Begin(t) ==
    /\ pc[t] = "idle"
    /\ op' = [op EXCEPT ![t] = "increments"]
    /\ arg' = [arg EXCEPT ![t] = <<>>]
    /\ result' = [result EXCEPT ![t] = NoResult]
    /\ index' = [index EXCEPT ![t] = begin]
    /\ pc' = [pc EXCEPT ![t] = "advance"]
    /\ local' = [local EXCEPT ![t] = nullptr]
    /\ used' = [used EXCEPT ![t] = nullptr]
    /\ seen' = [seen EXCEPT ![t] = <<>>]
    /\ UNCHANGED <<_names, _values, _processedNames, heap, owner>>

\* ++it, wherever it stands; the index it reaches is recorded.
Advance(t) ==
    /\ pc[t] = "advance"
    /\ Len(result[t].ret) < MaxAdvance
    /\ index' = [index EXCEPT ![t] = increment(index[t])]
    /\ result' = [result EXCEPT ![t].ret = Append(@, increment(index[t]))]
    /\ UNCHANGED <<_names, _values, _processedNames, heap, pc, op, arg, local, used,
                   owner, seen>>

\* The caller lets go of the iterator.
Drop(t) ==
    /\ pc[t] = "advance"
    /\ pc' = [pc EXCEPT ![t] = "idle"]
    /\ UNCHANGED <<_names, _values, _processedNames, heap, op, arg, result, local,
                   index, used, owner, seen>>

Step(t) ==
    \/ CallValues(t)
    \/ CallNames(t)
    \/ CallDesc(t)
    \/ CallFind(t)
    \/ CallCaseFind(t)
    \/ CallValidInt(t)
    \/ CallValid(t)
    \/ CallCaseValid(t)
    \/ ProcessNamesTest(t)
    \/ Allocate(t)
    \/ Trim(t)
    \/ Publish(t)
    \/ Body(t)
    \/ Loop(t)
    \/ Begin(t)
    \/ Advance(t)
    \/ Drop(t)

\* One caller at a time: every call runs to completion before the next.
Next == \E t \in MainThreads : Step(t)

Spec == Init /\ [][Next]_vars

\* Several threads calling into the same family.
ConcFamilies ==
    {<<Auto(<<"A">>)>>, <<Explicit(<<"A">>, Spaced, 1), Auto(<<"a">>)>>}

InitConc == \E decls \in ConcFamilies : InitFamily(decls)

NextConc == \E t \in Threads : Step(t)

SpecConc == InitConc /\ [][NextConc]_vars

\* A call of t has completed.
Done(t) == pc[t] = "idle" /\ op[t] # "none"

(***************************************************************************)
(* The vocabulary of the specification: special slots, regular constants,  *)
(* range and validity, defined on the declarations themselves.             *)
(***************************************************************************)
NameOf(i) == TrimName(_names[i])

BadName == <<"_", "b", "a", "d">>
DefName == <<"_", "d", "e", "f">>
MinName == <<"_", "m", "i", "n">>
MaxName == <<"_", "m", "a", "x">>

IsSpecial(i) == NameOf(i) \in {BadName, DefName, MinName, MaxName}
Regular == {i \in 1.._rawSize : ~IsSpecial(i)}
RegularValues == {_values[i] : i \in Regular}
DeclaredNames == {NameOf(i) : i \in 1.._rawSize}

HasSlot(n) == \E i \in 1.._rawSize : NameOf(i) = n
SlotValue(n) == _values[CHOOSE i \in 1.._rawSize : NameOf(i) = n]

LeastOf(S) == CHOOSE m \in S : \A x \in S : m <= x
GreatestOf(S) == CHOOSE m \in S : \A x \in S : x <= m

RangeMin == IF HasSlot(MinName) THEN SlotValue(MinName) ELSE LeastOf(RegularValues)
RangeMax == IF HasSlot(MaxName) THEN SlotValue(MaxName) ELSE GreatestOf(RegularValues)

InRange(v) == Regular # {} /\ RangeMin <= v /\ v <= RangeMax

\* Validity of a raw value, as section 4.3 of the specification states it.
ValidValue(v) ==
    /\ v \in RegularValues
    /\ InRange(v)
    /\ HasSlot(BadName) => v # SlotValue(BadName)

\* The elements of arr at the regular, in-range declarations, in index order.
RECURSIVE RegularInRange(_, _)
RegularInRange(arr, i) ==
    IF i > _rawSize THEN <<>>
    ELSE (IF i \in Regular /\ InRange(_values[i]) THEN <<arr[i]>> ELSE <<>>)
             \o RegularInRange(arr, i + 1)

\* The first declaration carrying value v, and the first whose name is s up
\* to letter case.
EarliestWithValue(v) ==
    CHOOSE j \in 1.._rawSize : _values[j] = v /\ \A i \in 1..(j - 1) : _values[i] # v
EarliestCaseMatch(s) ==
    CHOOSE j \in 1.._rawSize :
        /\ strcasecmp0(NameOf(j), s)
        /\ \A i \in 1..(j - 1) : ~strcasecmp0(NameOf(i), s)

\* A family as the specification admits it: it declares a regular constant.
WellFormed == Regular # {}

\* The table a completed name-based call of t read.
TableOf(t) == heap[used[t]]

(***************************************************************************)
(* C1 (stated as claimed): however the first name-based calls of several   *)
(* threads interleave, _enum::_processNames allocates the name table once, *)
(* and all completed name-based calls used that one table.                 *)
(***************************************************************************)
C1_SingleBuild ==
    /\ Len(heap) <= 1
    /\ \A t, u \in Threads :
          (Done(t) /\ Done(u) /\ op[t] \in NameOps /\ op[u] \in NameOps)
              => used[t] = used[u]

(***************************************************************************)
(* C2 (stated as claimed): valid(v) returns true exactly when v is the     *)
(* value of a regular constant, lies within [min, max] and is not the bad  *)
(* value.                                                                  *)
(***************************************************************************)
C2_ValidIntegralIsMembership ==
    \A t \in Threads :
        (Done(t) /\ op[t] = "validIntegral")
            => result[t] = Return(ValidValue(arg[t]))

(***************************************************************************)
(* C3 (stated as claimed): a traversal of values(), and of names(), from   *)
(* begin() to end() yields exactly the regular constants whose value is in *)
(* [min, max], in declaration order; no special slot is yielded.  Stated  *)
(* for the families that declare a regular constant.                       *)
(***************************************************************************)
C3_TraversalYieldsValidRegulars ==
    \A t \in Threads :
        /\ (WellFormed /\ Done(t) /\ op[t] = "values")
              => result[t].ret = RegularInRange(_values, 1)
        /\ (WellFormed /\ Done(t) /\ op[t] = "names")
              => result[t].ret = RegularInRange([i \in 1.._rawSize |-> NameOf(i)], 1)

(***************************************************************************)
(* C4: for every value v that values() yields, desc(v) returns a name and  *)
(* find of that name returns v, also when two constants share a value.     *)
(* Checked on the completed calls: a desc call on a yielded value returns, *)
(* and a find call whose argument is what desc returns for a yielded value *)
(* v returns v.                                                            *)
(***************************************************************************)
C4_ValueNameValue ==
    \A t \in Threads :
        LET yielded == Traverse(_values, begin)
        IN  /\ (Done(t) /\ op[t] = "desc"
                   /\ \E k \in 1..Len(yielded) : yielded[k] = arg[t])
                  => result[t].thrown = ""
            /\ (Done(t) /\ op[t] = "find")
                  => \A k \in 1..Len(yielded) :
                        LET d == desc(TableOf(t), _values, yielded[k])
                        IN  /\ d.thrown = ""
                            /\ d.ret = <<arg[t]>> => result[t] = Return(yielded[k])

\* A find call on the name desc gives for a value that two constants share
\* has returned that value.
C4_Witness ==
    \E t \in Threads :
        /\ Done(t) /\ op[t] = "find"
        /\ \E i, j \in 1.._rawSize :
              /\ i < j /\ _values[i] = _values[j]
              /\ desc(TableOf(t), _values, _values[j]).ret = <<arg[t]>>
              /\ result[t] = Return(_values[j])

(***************************************************************************)
(* C5 (stated as claimed): for every name n that names() yields, find(n)   *)
(* returns a value and desc of that value returns n, in every family.      *)
(***************************************************************************)
C5_NameValueName ==
    \A t \in Threads :
        (WellFormed /\ Done(t) /\ op[t] = "desc")
            => LET yielded == Traverse(TableOf(t), begin)
               IN  \A k \in 1..Len(yielded) :
                      LET f == find(TableOf(t), _values, yielded[k])
                      IN  /\ f.thrown = ""
                          /\ f.ret = <<arg[t]>> => result[t] = Return(yielded[k])

(***************************************************************************)
(* C5 (amended): for every name n that names() yields, find(n) returns the *)
(* value declared with n, and desc of that value returns the name of the   *)
(* earliest declaration carrying that value, which is n exactly when no    *)
(* earlier declaration has the same value.                                 *)
(***************************************************************************)
C5_NameValueFirstName ==
    \A t \in Threads :
        /\ (Done(t) /\ op[t] = "find"
               /\ \E i \in 1.._rawSize : NameOf(i) = arg[t])
              => \E i \in 1.._rawSize : NameOf(i) = arg[t] /\ result[t] = Return(_values[i])
        /\ (Done(t) /\ op[t] = "desc")
              => LET yielded == Traverse(TableOf(t), begin)
                 IN  \A k \in 1..Len(yielded) :
                        LET f == find(TableOf(t), _values, yielded[k])
                            e == EarliestWithValue(_values[k])
                        IN  /\ f = Return(_values[k])
                            /\ f.ret = <<arg[t]>>
                                  => /\ result[t] = Return(NameOf(e))
                                     /\ (result[t] = Return(yielded[k])) <=> (e = k)

\* A desc call on a value that two names share has returned the earlier name.
C5_Witness ==
    \E t \in Threads :
        /\ Done(t) /\ op[t] = "desc"
        /\ \E i, j \in 1.._rawSize :
              /\ i < j /\ _values[i] = arg[t] /\ _values[j] = arg[t]
              /\ NameOf(i) # NameOf(j)
              /\ result[t] = Return(NameOf(EarliestWithValue(arg[t])))

C7_FindOnlyRegular ==
    \A t \in Threads :
        (WellFormed /\ Done(t) /\ op[t] = "find")
            => IF \E i \in Regular : NameOf(i) = arg[t]
               THEN \E i \in Regular :
                       NameOf(i) = arg[t] /\ result[t] = Return(_values[i])
               ELSE result[t] = Throw("std::exception")

\* s and n are different strings that agree up to letter case.
DiffersOnlyInCase(s, n) == s # n /\ strcasecmp0(s, n)

(***************************************************************************)
(* C8 (stated as claimed): for every declared name N and every s that      *)
(* differs from N only in letter case, caseFind(s) returns what find(N)    *)
(* returns, in every family; and find(s) throws when s is not exactly a    *)
(* declared name.                                                          *)
(***************************************************************************)
C8_CaseFindIsFind ==
    \A t \in Threads :
        /\ (WellFormed /\ Done(t) /\ op[t] = "caseFind")
              => \A i \in 1.._rawSize :
                    DiffersOnlyInCase(arg[t], NameOf(i))
                        => result[t] = find(TableOf(t), _values, NameOf(i))
        /\ (WellFormed /\ Done(t) /\ op[t] = "find" /\ arg[t] \notin DeclaredNames)
              => result[t].thrown # ""

(***************************************************************************)
(* C8 (amended): for every declared name N and every s that differs from N *)
(* only in letter case, caseFind(s) returns the value of the earliest      *)
(* declaration whose name equals s up to letter case, which is what        *)
(* find(N) returns whenever no earlier declaration's name equals N up to   *)
(* letter case; and find(s) throws when s is not exactly a declared name.  *)
(***************************************************************************)
C8_CaseFindEarliest ==
    \A t \in Threads :
        /\ (Done(t) /\ op[t] = "caseFind")
              => \A i \in 1.._rawSize :
                    DiffersOnlyInCase(arg[t], NameOf(i))
                        => /\ result[t] = Return(_values[EarliestCaseMatch(arg[t])])
                           /\ EarliestCaseMatch(arg[t]) = i
                                 => result[t] = find(TableOf(t), _values, NameOf(i))
        /\ (Done(t) /\ op[t] = "find" /\ arg[t] \notin DeclaredNames)
              => result[t] = Throw("std::exception")

\* A caseFind call on a string that matches two declared names up to case,
\* and is the later one exactly, has returned the earlier one's value.
C8_Witness ==
    \E t \in Threads :
        /\ Done(t) /\ op[t] = "caseFind"
        /\ \E i, j \in 1.._rawSize :
              /\ i < j /\ DiffersOnlyInCase(arg[t], NameOf(i)) /\ arg[t] = NameOf(j)
              /\ _values[i] # _values[j]
              /\ result[t] = Return(_values[i])

(***************************************************************************)
(* C9: desc(value) returns the name of a declaration whose value is value, *)
(* special slots included, and throws std::domain_error exactly when no    *)
(* declaration has that value.                                             *)
(***************************************************************************)
C9_DescScansAllDeclared ==
    \A t \in Threads :
        (Done(t) /\ op[t] = "desc")
            => IF \E i \in 1.._rawSize : _values[i] = arg[t]
               THEN \E i \in 1.._rawSize :
                       _values[i] = arg[t] /\ result[t] = Return(NameOf(i))
               ELSE result[t] = Throw("std::domain_error")

\* A desc call on the value of the bad slot, which no regular constant has,
\* has returned the slot's name.
C9_Witness ==
    \E t \in Threads :
        /\ Done(t) /\ op[t] = "desc"
        /\ WellFormed /\ HasSlot(BadName)
        /\ arg[t] = SlotValue(BadName) /\ arg[t] \notin RegularValues
        /\ result[t] = Return(BadName)

(***************************************************************************)
(* C10: valid(name) returns true exactly when find(name) returns and false *)
(* exactly when it throws; caseValid(name) likewise with caseFind; neither *)
(* lets an exception out.                                                  *)
(***************************************************************************)
C10_ValidIffFindSucceeds ==
    \A t \in Threads :
        /\ (Done(t) /\ op[t] = "valid")
              => result[t] = Return(find(TableOf(t), _values, arg[t]).thrown = "")
        /\ (Done(t) /\ op[t] = "caseValid")
              => result[t] = Return(caseFind(TableOf(t), _values, arg[t]).thrown = "")

\* A valid call has returned false on a name that only caseValid accepts.
C10_Witness ==
    \E t \in Threads :
        /\ Done(t) /\ op[t] = "valid"
        /\ result[t] = Return(FALSE)
        /\ caseValid(TableOf(t), _values, arg[t]) = Return(TRUE)

(***************************************************************************)
(* C11 (stated as claimed): when a family declares _min, its minimum is    *)
(* the value declared with _min, and when it declares _max, its maximum is *)
(* the value declared with _max, whatever the regular constants' values.   *)
(***************************************************************************)
C11_OverridesGiveRange ==
    /\ (WellFormed /\ HasSlot(MinName)) => FamilyMin = SlotValue(MinName)
    /\ (WellFormed /\ HasSlot(MaxName)) => FamilyMax = SlotValue(MaxName)

\* The earliest regular declaration carrying value v.
EarliestRegularWithValue(v) ==
    CHOOSE j \in Regular : _values[j] = v /\ \A i \in Regular : _values[i] = v => j <= i

(***************************************************************************)
(* C12 (stated as claimed): in a family without _min and _max, the         *)
(* computed minimum and maximum are the least and the greatest value of    *)
(* the regular constants only, each at the earliest declaration carrying   *)
(* it.                                                                     *)
(***************************************************************************)
C12_MinMaxOverRegulars ==
    (WellFormed /\ ~HasSlot(MinName) /\ ~HasSlot(MaxName))
        => /\ _minIndex + 1 = EarliestRegularWithValue(LeastOf(RegularValues))
           /\ _maxIndex + 1 = EarliestRegularWithValue(GreatestOf(RegularValues))

\* c ends a name: '=', space, tab or newline.
IsNameEnder(c) == c \in {"=", " ", "\t", "\n"}

\* raw cut at its first name-ending character, or whole if it has none.
CutAtFirstEnder(raw) ==
    LET k == CHOOSE k \in 0..Len(raw) :
                 /\ \A j \in 1..k : ~IsNameEnder(raw[j])
                 /\ k = Len(raw) \/ IsNameEnder(raw[k + 1])
    IN  SubSeq(raw, 1, k)

(***************************************************************************)
(* C13: the published name table has one entry per declaration, at the     *)
(* declaration's index, and entry i is the raw text i cut at its first     *)
(* '=', space, tab or newline, or whole if it has none; the raw texts      *)
(* "A = 42", "A=42" and "A" all give "A".                                  *)
(***************************************************************************)
C13_TableIsTrimmedNames ==
    _processedNames # nullptr
        => LET table == heap[_processedNames]
           IN  /\ Len(table) = _rawSize
               /\ \A i \in 1.._rawSize :
                     /\ table[i] = CutAtFirstEnder(_names[i])
                     /\ _names[i] \in {<<"A", " ", "=", " ", "4", "2">>,
                                       <<"A", "=", "4", "2">>, <<"A">>}
                           => table[i] = <<"A">>

\* The table of the family declared as "A = 42" has been published, with
\* the entry "A".
C13_Witness ==
    /\ _processedNames # nullptr
    /\ _names = << <<"A", " ", "=", " ", "4", "2">> >>
    /\ heap[_processedNames] = << <<"A">> >>

(***************************************************************************)
(* C14 (stated as claimed): a family that declares no regular constant, be *)
(* it empty or made of special slots only, is rejected when it is defined: *)
(* no call is ever served by a family without a regular constant.          *)
(***************************************************************************)
C14_NoFamilyWithoutRegular ==
    /\ _rawSize > 0
    /\ \A t \in Threads : Done(t) => WellFormed

\* The index of t's iterator before its k-th ++.
IndexBefore(t, k) == IF k = 1 THEN begin ELSE result[t].ret[k - 1]

(***************************************************************************)
(* C16: whatever number of ++ is applied to an iterator taken from         *)
(* begin(), its index is at most _rawSize, and a ++ applied to an iterator *)
(* that equals end() leaves it equal to end().                             *)
(***************************************************************************)
C16_AdvanceStaysAtEnd ==
    \A t \in Threads :
        op[t] = "increments"
            => /\ index[t] <= _rawSize
               /\ \A k \in 1..Len(result[t].ret) :
                     /\ result[t].ret[k] <= _rawSize
                     /\ IndexBefore(t, k) = end => result[t].ret[k] = end

\* Two ++ in a row have been applied to an iterator that equals end().
C16_Witness ==
    \E t \in Threads :
        /\ op[t] = "increments"
        /\ \E k \in 2..Len(result[t].ret) :
              /\ IndexBefore(t, k - 1) = end
              /\ IndexBefore(t, k) = end
              /\ result[t].ret[k] = end
              /\ index[t] = end

====
